---- MODULE Spec2Model ----
(***************************************************************************)
(* Model of js/cookies.js: the cookie store adapter (setCookie, getCookie, *)
(* eraseCookie), the CookieConsent controller and the two global helper   *)
(* functions (window.trackEvent, window.saveUserPreference).               *)
(*                                                                         *)
(* A JavaScript string is a sequence of symbols.  The separator characters *)
(* the code and the browser look at (";", "=", " ") are symbols of their   *)
(* own; every other symbol stands for a run of characters that holds none  *)
(* of the three ("given", "dark", a JSON token such as "{" or "true").     *)
(***************************************************************************)
EXTENDS Integers, Sequences, FiniteSets, TLC

VARIABLES
    jar,            \* the browser's cookie jar of the site: <<[name, value]>> in creation order
    https,          \* window.location.protocol === 'https:'
    gtag,           \* typeof gtag !== 'undefined' on the current page
    cc,             \* window.cookieConsent exists (DOMContentLoaded has run)
    consentGiven,   \* this.consentGiven
    preferences,    \* this.preferences
    dom,            \* the part of the document the code reads and writes
    last,           \* the last operation performed and what it did (history)
    decision        \* the last consent action of this browser (history)

vars == <<jar, https, gtag, cc, consentGiven, preferences, dom, last, decision>>

(***************************************************************************)
(* Bounds of the model.                                                    *)
(***************************************************************************)
\* most cookies the jar holds in SpecAdapter
MaxCookies == 2

(***************************************************************************)
(* Evaluation.  Let(e, F) is F(e) with e evaluated once: an operator that  *)
(* looks at an argument several times first binds it with Let.             *)
(***************************************************************************)
Let(e, F(_)) == CHOOSE r \in {F(x) : x \in {e}} : TRUE

(***************************************************************************)
(* Strings.                                                                *)
(***************************************************************************)
\* the string without its leading spaces
LTrim(s0) ==
    Let(s0, LAMBDA s :
        LET n == CHOOSE n \in 0..Len(s) :
                    /\ \A i \in 1..n : s[i] = " "
                    /\ n = Len(s) \/ s[n + 1] # " "
        IN  SubSeq(s, n + 1, Len(s)))

\* the string without its trailing spaces
RTrim(s0) ==
    Let(s0, LAMBDA s :
        LET n == CHOOSE n \in 0..Len(s) :
                    /\ \A i \in (n + 1)..Len(s) : s[i] = " "
                    /\ n = 0 \/ s[n] # " "
        IN  SubSeq(s, 1, n))

Trim(s) == RTrim(LTrim(s))

\* String.prototype.indexOf for a one-symbol needle, 1-based; 0 when absent
IndexOf(s0, t) ==
    Let(s0, LAMBDA s :
        Let({i \in 1..Len(s) : s[i] = t}, LAMBDA at :
            IF at = {} THEN 0 ELSE CHOOSE i \in at : \A j \in at : i <= j))

\* c.indexOf(p) === 0
StartsWith(c0, p) ==
    Let(c0, LAMBDA c : Len(c) >= Len(p) /\ SubSeq(c, 1, Len(p)) = p)

\* String.prototype.split(sep): the segments between the separators ("" splits
\* into one empty segment)
Split(s0, sep) ==
    Let(s0, LAMBDA s :
        Let({i \in 1..Len(s) : s[i] = sep}, LAMBDA at :
            LET n == Cardinality(at)
                \* the place of the k-th separator; 0 and Len(s) + 1 bound the string
                Sep(k) == IF k = 0 THEN 0
                          ELSE IF k > n THEN Len(s) + 1
                          ELSE CHOOSE i \in at : Cardinality({j \in at : j <= i}) = k
            IN  [k \in 1..(n + 1) |-> SubSeq(s, Sep(k - 1) + 1, Sep(k) - 1)]))

RECURSIVE JoinFrom(_, _, _)
JoinFrom(ss, i, sep) ==
    IF i > Len(ss) THEN <<>>
    ELSE IF i = Len(ss) THEN ss[i]
    ELSE ss[i] \o sep \o JoinFrom(ss, i + 1, sep)

Join(ss0, sep) == Let(ss0, LAMBDA ss : JoinFrom(ss, 1, sep))

\* the result of a lookup: null, or a string
Null == [found |-> FALSE, val |-> <<>>]
Str(v) == [found |-> TRUE, val |-> v]
\* JavaScript truthiness of a lookup result: null and "" are falsy
Truthy(r) == r.found /\ r.val # <<>>

(***************************************************************************)
(* The browser's side of document.cookie.                                  *)
(***************************************************************************)
PastDate == "Thu, 01 Jan 1970 00:00:01 GMT"

\* date.toUTCString() of now + days: a symbol for a time after or before now
DateAfter(days) == IF days > 0 THEN "<now+days>" ELSE "<now-days>"

IsPast(d) == d \in {PastDate, "<now-days>"}

\* attribute names are matched without regard to case
Lower(t) ==
    CASE t = "Expires" -> "expires"
      [] t = "Path" -> "path"
      [] t = "Secure" -> "secure"
      [] t = "SameSite" -> "samesite"
      [] OTHER -> t

\* a "key=val" piece of a cookie string as [key, val], both stripped of the
\* spaces around them; a piece without "=" is all val when it is the cookie's
\* name-value pair (nameless) and all key when it is an attribute
KeyVal(a0, nameless) ==
    Let(a0, LAMBDA a :
        Let(IndexOf(a, "="), LAMBDA eq :
            IF eq = 0
            THEN IF nameless THEN [key |-> <<>>, val |-> Trim(a)]
                 ELSE [key |-> Trim(a), val |-> <<>>]
            ELSE [key |-> Trim(SubSeq(a, 1, eq - 1)),
                  val |-> Trim(SubSeq(a, eq + 1, Len(a)))]))

\* one attribute of a cookie string
Attr(a) ==
    Let(KeyVal(a, FALSE), LAMBDA kv :
        [kv EXCEPT !.key = IF Len(@) = 1 THEN <<Lower(@[1])>> ELSE @])

RemoveCookie(j, name) == SelectSeq(j, LAMBDA c : c.name # name)

\* a cookie of the same name keeps its place in the jar (its creation time)
PutCookie(j, name, value) ==
    IF \E i \in 1..Len(j) : j[i].name = name
    THEN [i \in 1..Len(j) |->
            IF j[i].name = name THEN [name |-> name, value |-> value] ELSE j[i]]
    ELSE Append(j, [name |-> name, value |-> value])

\* the browser stores, drops or refuses the cookie nv with attributes attrs
Store(j, nv, attrs, secureOrigin) ==
    LET expired == \E i \in 1..Len(attrs) :
                      /\ attrs[i].key = <<"expires">>
                      /\ Len(attrs[i].val) = 1
                      /\ IsPast(attrs[i].val[1])
        secure == \E i \in 1..Len(attrs) : attrs[i].key = <<"secure">>
    IN  IF nv.key = <<>> /\ nv.val = <<>> THEN j
        ELSE IF secure /\ ~secureOrigin THEN j
        ELSE IF expired THEN RemoveCookie(j, nv.key)
        ELSE PutCookie(j, nv.key, nv.val)

\* document.cookie = str: the name-value pair ends at the first ";", the name
\* at the first "=", both are stripped of surrounding spaces; an expiry in the
\* past removes the cookie, a Secure cookie is refused off https
DocCookieSet(j0, str, secureOrigin) ==
    Let(j0, LAMBDA j :
        Let(Split(str, ";"), LAMBDA parts :
            Let(KeyVal(parts[1], TRUE), LAMBDA nv :
                Let([i \in 1..(Len(parts) - 1) |-> Attr(parts[i + 1])], LAMBDA attrs :
                    Store(j, nv, attrs, secureOrigin)))))

\* reading document.cookie: "n1=v1; n2=v2"; a nameless cookie shows its value
DocCookieGet(j) ==
    Join([i \in 1..Len(j) |->
            IF j[i].name = <<>> THEN j[i].value
            ELSE j[i].name \o <<"=">> \o j[i].value],
         <<";", " ">>)

(***************************************************************************)
(* Core cookie functions.                                                  *)
(***************************************************************************)
\* the string setCookie assigns to document.cookie (sameSite = 'Strict')
CookieString(name, value, days, secure, secureOrigin) ==
    LET expires == IF days # 0
                   THEN <<";", " ", "expires", "=", DateAfter(days)>>
                   ELSE <<>>
        base == name \o <<"=">> \o value \o expires \o <<";", " ", "path", "=", "/">>
        sec == IF secure /\ secureOrigin THEN <<";", " ", "Secure">> ELSE <<>>
    IN  base \o sec \o <<";", " ", "SameSite", "=", "Strict">>

setCookie(j, name, value, days, secureOrigin) ==
    DocCookieSet(j, CookieString(name, value, days, TRUE, secureOrigin), secureOrigin)

\* getCookie without the strip of a segment's leading spaces
RECURSIVE ScanCookiesNoTrim(_, _, _)
ScanCookiesNoTrim(ca, i, nameEQ) ==
    IF i > Len(ca) THEN Null
    ELSE IF StartsWith(ca[i], nameEQ)
         THEN Str(SubSeq(ca[i], Len(nameEQ) + 1, Len(ca[i])))
         ELSE ScanCookiesNoTrim(ca, i + 1, nameEQ)

RECURSIVE ScanCookies(_, _, _)
ScanCookies(ca, i, nameEQ) ==
    IF i > Len(ca) THEN Null
    ELSE Let(LTrim(ca[i]), LAMBDA c :
            IF StartsWith(c, nameEQ)
            THEN Str(SubSeq(c, Len(nameEQ) + 1, Len(c)))
            ELSE ScanCookies(ca, i + 1, nameEQ))

getCookie(j, name) ==
    Let(Split(DocCookieGet(j), ";"), LAMBDA ca : ScanCookies(ca, 1, name \o <<"=">>))

\* eraseCookie that empties the cookie and sets no expiry
eraseCookieNoExpiry(j, name, secureOrigin) ==
    DocCookieSet(j, name \o <<"=", ";", " ", "Path", "=", "/", ";">>, secureOrigin)

eraseCookie(j, name, secureOrigin) ==
    DocCookieSet(j,
        name \o <<"=", ";", " ", "Path", "=", "/", ";", " ", "Expires", "=", PastDate, ";">>,
        secureOrigin)

(***************************************************************************)
(* Cookie categories, persisted cookie names, JSON.                        *)
(***************************************************************************)
NECESSARY == "necessary"
FUNCTIONAL == "functional"
ANALYTICS == "analytics"
MARKETING == "marketing"

PrefKeys == {NECESSARY, FUNCTIONAL, ANALYTICS, MARKETING}
Optional == {FUNCTIONAL, ANALYTICS, MARKETING}

COOKIE_CONSENT == <<"cookie_consent">>
COOKIE_PREFERENCES == <<"cookie_preferences">>
SITE_THEME == <<"site_theme">>
PREFERRED_LANGUAGE == <<"preferred_language">>
FONT_SIZE == <<"font_size">>
GIVEN == <<"given">>

\* the preference set of the constructor and of rejectAll
DefaultPreferences ==
    [k \in PrefKeys |-> k = NECESSARY]

AllPreferences == [k \in PrefKeys |-> TRUE]

JBool(b) == IF b THEN "true" ELSE "false"

\* JSON.stringify that loses the last key
JSONstringifyNoMarketing(p) ==
    <<"{", NECESSARY, ":", JBool(p[NECESSARY]), ",",
           FUNCTIONAL, ":", JBool(p[FUNCTIONAL]), ",",
           ANALYTICS, ":", JBool(p[ANALYTICS]), "}">>

\* JSON.stringify(this.preferences): the four keys in insertion order.  A key
\* symbol stands for the quoted key.
JSONstringify(p) ==
    <<"{", NECESSARY, ":", JBool(p[NECESSARY]), ",",
           FUNCTIONAL, ":", JBool(p[FUNCTIONAL]), ",",
           ANALYTICS, ":", JBool(p[ANALYTICS]), ",",
           MARKETING, ":", JBool(p[MARKETING]), "}">>

JPunct == {"{", "}", ":", ",", ";", "=", " "}
JBools == {"true", "false"}
IsJKey(t) == t \notin JPunct \cup JBools

\* the members "key : bool , key : bool ..." between the braces
JMembersOk(m) ==
    /\ Len(m) % 4 = 3
    /\ \A i \in 1..Len(m) :
          CASE i % 4 = 1 -> IsJKey(m[i])
            [] i % 4 = 2 -> m[i] = ":"
            [] i % 4 = 3 -> m[i] \in JBools
            [] OTHER -> m[i] = ","

\* a later member of the same key wins
JMemberValue(m, k) ==
    LET i == CHOOSE x \in 1..Len(m) :
                /\ x % 4 = 1 /\ m[x] = k
                /\ \A y \in (x + 1)..Len(m) : ~(y % 4 = 1 /\ m[y] = k)
    IN  m[i + 2] = "true"

\* JSON.parse(text) as far as the merge needs it: [ok |-> FALSE] is the
\* SyntaxError; obj holds the category keys of a parsed object (a parsed
\* boolean has no own properties to spread).  Insignificant spaces are skipped.
JSONparse(text) ==
    Let(SelectSeq(text, LAMBDA x : x # " "), LAMBDA t :
        Let(SubSeq(t, 2, Len(t) - 1), LAMBDA m :
            IF Len(t) = 1 /\ t[1] \in JBools
            THEN [ok |-> TRUE, obj |-> [k \in {} |-> TRUE]]
            ELSE IF /\ Len(t) >= 2 /\ t[1] = "{" /\ t[Len(t)] = "}"
                    /\ (m = <<>> \/ JMembersOk(m))
            THEN [ok |-> TRUE,
                  obj |-> [k \in {k \in PrefKeys :
                                    \E i \in 1..Len(m) : i % 4 = 1 /\ m[i] = k}
                             |-> JMemberValue(m, k)]]
            ELSE [ok |-> FALSE, obj |-> [k \in {} |-> TRUE]]))

\* the parsed object alone, without the defaults under it: a key it lacks
\* reads as undefined, which is falsy
SpreadParsedOnly(p, obj) ==
    [k \in PrefKeys |-> k \in DOMAIN obj /\ obj[k]]

\* { ...this.preferences, ...parsed }
Spread(p, obj) ==
    [k \in PrefKeys |-> IF k \in DOMAIN obj THEN obj[k] ELSE p[k]]

(***************************************************************************)
(* The document.                                                           *)
(***************************************************************************)
Banner == "cookie-banner"
Modal == "cookie-settings-modal"
Checkbox == [k \in Optional |->
                CASE k = FUNCTIONAL -> "functional-cookies"
                  [] k = ANALYTICS -> "analytics-cookies"
                  [] OTHER -> "marketing-cookies"]
Checkboxes == {Checkbox[k] : k \in Optional}
ThemeSelector == "theme-selector"
Controls ==
    {"accept-all-cookies", "reject-all-cookies", "cookie-settings-btn",
     "save-cookie-preferences", "close-cookie-modal", ThemeSelector}
Elements == {Banner, Modal} \cup Checkboxes \cup Controls

\* the document of a freshly loaded page holding the elements in p
FreshDom(p) ==
    [present |-> p,
     banner |-> "",                        \* cookie-banner style.display
     modal |-> "",                         \* cookie-settings-modal style.display
     checked |-> [k \in Optional |-> FALSE],
     bodyClass |-> <<>>,                   \* the theme class of document.body
     selector |-> <<>>,                    \* theme-selector value
     lang |-> <<>>,                        \* document.documentElement.lang
     fontSize |-> <<>>,                    \* documentElement.style.fontSize
     listeners |-> {},                     \* controls with a handler bound
     ready |-> FALSE]                      \* DOMContentLoaded has fired

(***************************************************************************)
(* CookieConsent.  A method maps the world it runs in (jar, controller     *)
(* fields, document, and the calls made so far in this operation) to the   *)
(* world w it leaves.                                                      *)
(***************************************************************************)
World ==
    [jar |-> jar, consentGiven |-> consentGiven, preferences |-> preferences,
     dom |-> dom, calls |-> {}, threw |-> FALSE]

\* a statement runs in the world the statements before it left, unless one
\* of them threw: an exception ends the operation
Run(world, M(_)) == CHOOSE r \in {IF w.threw THEN w ELSE M(w) : w \in {world}} : TRUE

Throw(w) == [w EXCEPT !.threw = TRUE]

Called(world, c) == Run(world, LAMBDA w : [w EXCEPT !.calls = @ \cup {c}])

showConsentBanner(world) ==
    Run(Called(world, "showConsentBanner"), LAMBDA w :
        IF Banner \in w.dom.present THEN [w EXCEPT !.dom.banner = "block"] ELSE w)

hideConsentBanner(world) ==
    Run(Called(world, "hideConsentBanner"), LAMBDA w :
        IF Banner \in w.dom.present THEN [w EXCEPT !.dom.banner = "none"] ELSE w)

saveConsent(world) ==
    Run(world, LAMBDA w :
        Let(setCookie(w.jar, COOKIE_CONSENT, GIVEN, 365, https), LAMBDA j :
            [w EXCEPT !.jar = setCookie(j, COOKIE_PREFERENCES,
                                        JSONstringify(w.preferences), 365, https),
                      !.consentGiven = TRUE]))

\* loadPreferences without the try/catch
loadPreferencesNoCatch(world) ==
    Run(world, LAMBDA w :
        Let(getCookie(w.jar, COOKIE_PREFERENCES), LAMBDA prefs :
            IF Truthy(prefs)
            THEN Let(JSONparse(prefs.val), LAMBDA parsed :
                    IF parsed.ok
                    THEN [w EXCEPT !.preferences = Spread(w.preferences, parsed.obj)]
                    ELSE Throw(w))
            ELSE w))

loadPreferences(world) ==
    Run(world, LAMBDA w :
        Let(getCookie(w.jar, COOKIE_PREFERENCES), LAMBDA prefs :
            IF Truthy(prefs)
            THEN Let(JSONparse(prefs.val), LAMBDA parsed :
                    IF parsed.ok
                    THEN [w EXCEPT !.preferences = Spread(w.preferences, parsed.obj)]
                    ELSE Called(w, "console.warn"))
            ELSE w))

\* the old theme class is taken off document.body, then classList.add throws
\* (InvalidCharacterError) on a token that holds white space
applyTheme(world, theme) ==
    Run(world, LAMBDA w :
        IF \E i \in 1..Len(theme) : theme[i] = " "
        THEN Throw([w EXCEPT !.dom.bodyClass = <<>>])
        ELSE IF ThemeSelector \in w.dom.present
        THEN [w EXCEPT !.dom.bodyClass = theme \o <<"-theme">>, !.dom.selector = theme]
        ELSE [w EXCEPT !.dom.bodyClass = theme \o <<"-theme">>])

\* saveTheme without the functional gate
saveThemeUngated(world, theme) ==
    Run(world, LAMBDA w :
        applyTheme([w EXCEPT !.jar = setCookie(w.jar, SITE_THEME, theme, 365, https)],
                   theme))

saveTheme(world, theme) ==
    Run(world, LAMBDA w :
        IF w.preferences[FUNCTIONAL]
        THEN applyTheme([w EXCEPT !.jar = setCookie(w.jar, SITE_THEME, theme, 365, https)],
                        theme)
        ELSE w)

setLanguage(world, lang) ==
    Run(world, LAMBDA w :
        IF w.preferences[FUNCTIONAL]
        THEN [w EXCEPT !.jar = setCookie(w.jar, PREFERRED_LANGUAGE, lang, 365, https),
                       !.dom.lang = lang]
        ELSE w)

setFontSize(world, size) ==
    Run(world, LAMBDA w :
        IF w.preferences[FUNCTIONAL]
        THEN [w EXCEPT !.jar = setCookie(w.jar, FONT_SIZE, size, 365, https),
                       !.dom.fontSize = size]
        ELSE w)

\* the font-size half of loadUserPreferences
loadFontSize(world) ==
    Run(world, LAMBDA w :
        Let(getCookie(w.jar, FONT_SIZE), LAMBDA fontSize :
            IF Truthy(fontSize) THEN setFontSize(w, fontSize.val) ELSE w))

loadUserPreferences(world) ==
    Run(world, LAMBDA w :
        Let(getCookie(w.jar, PREFERRED_LANGUAGE), LAMBDA language :
            loadFontSize(IF Truthy(language) THEN setLanguage(w, language.val) ELSE w)))

enableFunctionalCookies(world) ==
    Run(Called(world, "enableFunctionalCookies"), LAMBDA w :
        Let(getCookie(w.jar, SITE_THEME), LAMBDA savedTheme :
            loadUserPreferences(
                IF Truthy(savedTheme) THEN applyTheme(w, savedTheme.val) ELSE w)))

trackPageView(world) ==
    Run(world, LAMBDA w :
        IF w.preferences[ANALYTICS] THEN Called(w, "pageview") ELSE w)

enableAnalytics(world) ==
    Run(Called(world, "enableAnalytics"), LAMBDA w :
        trackPageView(IF gtag THEN Called(w, "gtag:analytics_storage") ELSE w))

enableMarketing(world) ==
    Run(Called(world, "enableMarketing"), LAMBDA w :
        IF gtag THEN Called(w, "gtag:ad_storage") ELSE w)

\* one statement of applyCookieSettings: if (this.preferences[k]) enable...()
applyFunctional(world) ==
    Run(world, LAMBDA w :
        IF w.preferences[FUNCTIONAL] THEN enableFunctionalCookies(w) ELSE w)

applyAnalytics(world) ==
    Run(world, LAMBDA w :
        IF w.preferences[ANALYTICS] THEN enableAnalytics(w) ELSE w)

applyMarketing(world) ==
    Run(world, LAMBDA w :
        IF w.preferences[MARKETING] THEN enableMarketing(w) ELSE w)

\* applyCookieSettings with marketing gated by the analytics flag
applyCookieSettingsAnalyticsTwice(world) ==
    Let(applyAnalytics(applyFunctional(Called(world, "applyCookieSettings"))), LAMBDA w :
        IF w.preferences[ANALYTICS] THEN enableMarketing(w) ELSE w)

\* applyCookieSettings that revokes the stored theme when functional is off
applyCookieSettingsRevoking(world) ==
    Run(applyMarketing(applyAnalytics(applyFunctional(Called(world, "applyCookieSettings")))),
        LAMBDA w :
            IF w.preferences[FUNCTIONAL] THEN w
            ELSE [w EXCEPT !.jar = eraseCookie(w.jar, SITE_THEME, https),
                           !.dom.bodyClass = <<>>])

applyCookieSettings(world) ==
    applyMarketing(applyAnalytics(applyFunctional(Called(world, "applyCookieSettings"))))

\* trackEvent gated by the functional flag
trackEventOnFunctional(world) ==
    Run(world, LAMBDA w :
        IF w.preferences[FUNCTIONAL]
        THEN IF gtag THEN Called(w, "gtag:event") ELSE w
        ELSE w)

trackEvent(world) ==
    Run(world, LAMBDA w :
        IF w.preferences[ANALYTICS]
        THEN IF gtag THEN Called(w, "gtag:event") ELSE w
        ELSE w)

\* document.getElementById(id).checked = this.preferences[k]: on a missing
\* checkbox a TypeError; nothing after it runs
SetChecked(world, k) ==
    Run(world, LAMBDA w :
        IF Checkbox[k] \notin w.dom.present THEN Throw(w)
        ELSE [w EXCEPT !.dom.checked[k] = w.preferences[k]])

openSettingsModal(world) ==
    Run(world, LAMBDA w :
        IF Modal \notin w.dom.present THEN w
        ELSE Run(SetChecked(SetChecked(SetChecked(w, FUNCTIONAL), ANALYTICS), MARKETING),
                 LAMBDA v : [v EXCEPT !.dom.modal = "block"]))

closeSettingsModal(world) ==
    Run(world, LAMBDA w :
        IF Modal \in w.dom.present THEN [w EXCEPT !.dom.modal = "none"] ELSE w)

setupEventListeners(world) ==
    Run(Called(world, "setupEventListeners"), LAMBDA w :
        [w EXCEPT !.dom.listeners = @ \cup (Controls \cap w.dom.present)])

acceptAll(world) ==
    Run(world, LAMBDA w :
        hideConsentBanner(applyCookieSettings(saveConsent(
            [w EXCEPT !.preferences = AllPreferences]))))

\* rejectAll that withdraws the consent marker
rejectAllWithdrawing(world) ==
    Run(world, LAMBDA w :
        Run(hideConsentBanner(applyCookieSettings(saveConsent(
                [w EXCEPT !.preferences = DefaultPreferences]))),
            LAMBDA v : [v EXCEPT !.jar = eraseCookie(v.jar, COOKIE_CONSENT, https)]))

rejectAll(world) ==
    Run(world, LAMBDA w :
        hideConsentBanner(applyCookieSettings(saveConsent(
            [w EXCEPT !.preferences = DefaultPreferences]))))

\* a checkbox read that keeps the category's flag when the checkbox is absent
CheckedOrKept(w, k) ==
    IF Checkbox[k] \in w.dom.present THEN w.dom.checked[k] ELSE w.preferences[k]

\* document.getElementById(id)?.checked || false
CheckedOrFalse(w, k) == Checkbox[k] \in w.dom.present /\ w.dom.checked[k]

\* the visitor leaves the category checkboxes of the page ticked as in c
Tick(world, c) ==
    Run(world, LAMBDA w :
        [w EXCEPT !.dom.checked =
            [k \in Optional |-> IF Checkbox[k] \in w.dom.present THEN c[k] ELSE @[k]]])

saveCustomPreferences(world) ==
    Run(world, LAMBDA w :
        closeSettingsModal(hideConsentBanner(applyCookieSettings(saveConsent(
            [w EXCEPT !.preferences =
                [k \in PrefKeys |->
                    IF k \in Optional THEN CheckedOrFalse(w, k) ELSE @[k]]])))))

\* init that shows the banner on both branches
initBannerAlways(world) ==
    Run(world, LAMBDA w :
        Let(getCookie(w.jar, COOKIE_CONSENT), LAMBDA consent :
            setupEventListeners(showConsentBanner(
                IF Truthy(consent)
                THEN applyCookieSettings(loadPreferences([w EXCEPT !.consentGiven = TRUE]))
                ELSE w))))

\* init that marks the consent as given before it looks at the marker
initDecided(world) ==
    Run(world, LAMBDA w :
        Let(getCookie(w.jar, COOKIE_CONSENT), LAMBDA consent :
            setupEventListeners(
                IF Truthy(consent)
                THEN applyCookieSettings(loadPreferences([w EXCEPT !.consentGiven = TRUE]))
                ELSE showConsentBanner([w EXCEPT !.consentGiven = TRUE]))))

init(world) ==
    Run(world, LAMBDA w :
        Let(getCookie(w.jar, COOKIE_CONSENT), LAMBDA consent :
            setupEventListeners(
                IF Truthy(consent)
                THEN applyCookieSettings(loadPreferences([w EXCEPT !.consentGiven = TRUE]))
                ELSE showConsentBanner(w))))

\* new CookieConsent()
construct(world) ==
    Run(world, LAMBDA w :
        init([w EXCEPT !.consentGiven = FALSE, !.preferences = DefaultPreferences]))

\* window.saveUserPreference(key, value, days = 365)
saveUserPreference(world, key, value) ==
    Run(world, LAMBDA w :
        IF cc /\ w.preferences[FUNCTIONAL]
        THEN [w EXCEPT !.jar = setCookie(w.jar, key, value, 365, https)]
        ELSE w)

(***************************************************************************)
(* Inputs.                                                                 *)
(***************************************************************************)
\* theme identifiers are class-name tokens (no white space)
Themes == {<<"dark">>}
Languages == {<<"en">>}
FontSizes == {<<"18px">>}
\* the option values of a theme selector, one of them two words
ThemeOptions == Themes \cup {<<"solar", " ", "dark">>}

\* a cookie_preferences value that claims necessary = false
PrefsNecessaryOff ==
    JSONstringify([k \in PrefKeys |-> k = FUNCTIONAL])
\* a cookie_preferences value that lacks keys
PrefsPartial == <<"{", ANALYTICS, ":", "true", "}">>
\* a cookie_preferences value cut short
PrefsCorrupt == <<"{", NECESSARY, ":", "true", ",", FUNCTIONAL>>

\* (key, value) pairs handed to window.saveUserPreference: a key of the
\* page's own, and keys that are the controller's cookie names
OwnKeys == {<<<<"ui_density">>, <<"compact">>>>}
ConsentKeys ==
    {<<COOKIE_PREFERENCES, PrefsNecessaryOff>>,
     <<COOKIE_PREFERENCES, PrefsPartial>>,
     <<COOKIE_PREFERENCES, PrefsCorrupt>>,
     <<COOKIE_CONSENT, <<>>>>}

\* the ways the visitor leaves the three checkboxes
Ticks == [Optional -> BOOLEAN]
\* one of them, with functional unticked: analytics alone
FunctionalUnticked == {[k \in Optional |-> k = ANALYTICS]}

\* names and values handed to the adapter in SpecAdapter, free of ";" and "="
Names == {<<>>, <<"a">>, <<"a", "a">>, <<" ", "a">>, <<"a", " ">>}
Values == {<<>>, <<"a">>, <<" ", "a">>, <<"a", " ">>, <<"a", " ", "a">>}
\* names handed to eraseCookie: those, and names that hold a separator
ErasedNames == Names \cup {<<"a", "=">>, <<"a", "=", "a">>, <<"a", ";", "a">>, <<"=">>}
Days == {-1, 0, 365}

(***************************************************************************)
(* The state machine.                                                      *)
(***************************************************************************)
Did(op, arg, days, calls, threw) ==
    [op |-> op, arg |-> arg, days |-> days, calls |-> calls, threw |-> threw]

NoDecision == [made |-> FALSE, intact |-> FALSE, prefs |-> DefaultPreferences]

\* the state an operation of the page leaves (an action binds the world w
\* the operation leaves as the one member of a set, which evaluates it once)
Commit(w, op, arg) ==
    /\ jar' = w.jar
    /\ consentGiven' = w.consentGiven
    /\ preferences' = w.preferences
    /\ dom' = w.dom
    /\ last' = Did(op, arg, 0, w.calls, w.threw)
    /\ UNCHANGED <<https, gtag>>

\* a consent action leaves its preference set on record
Decide(w) == decision' = [made |-> TRUE, intact |-> TRUE, prefs |-> w.preferences]

\* the record stays intact until something else writes a consent cookie
ConsentCookies(j) ==
    SelectSeq(j, LAMBDA c : c.name \in {COOKIE_CONSENT, COOKIE_PREFERENCES})

Keep(w) ==
    decision' = [decision EXCEPT !.intact =
                    @ /\ ConsentCookies(w.jar) = ConsentCookies(jar)]

FirstVisit(pages) ==
    /\ jar = <<>>
    /\ cc = FALSE
    /\ consentGiven = FALSE
    /\ preferences = DefaultPreferences
    /\ dom \in {FreshDom(p) : p \in pages}
    /\ last = Did("navigate", <<>>, 0, {}, FALSE)
    /\ decision = NoDecision

Init == https = TRUE /\ gtag \in BOOLEAN /\ FirstVisit({Elements})

\* a page of the site is opened: a new document, the script runs (it defines
\* the two window functions), no controller yet; the cookie jar stays, and so
\* does the analytics hook, which the pages of a site share
Navigate(pages) ==
    /\ dom' \in {FreshDom(p) : p \in pages}
    /\ cc' = FALSE
    /\ consentGiven' = FALSE
    /\ preferences' = DefaultPreferences
    /\ last' = Did("navigate", <<>>, 0, {}, FALSE)
    /\ UNCHANGED <<jar, https, gtag, decision>>

\* document.addEventListener('DOMContentLoaded', ...)
\* window.cookieConsent = new CookieConsent(): a constructor that throws
\* leaves no controller
DOMContentLoaded ==
    /\ ~dom.ready
    /\ \E w \in {construct([World EXCEPT !.dom.ready = TRUE])} :
          /\ cc' = ~w.threw
          /\ Commit(IF w.threw
                    THEN [w EXCEPT !.consentGiven = FALSE,
                                   !.preferences = DefaultPreferences]
                    ELSE w,
                    "load", <<>>)
          /\ Keep(w)

AcceptAll ==
    /\ cc
    /\ \E w \in {acceptAll(World)} :
          Commit(w, "acceptAll", <<>>) /\ Decide(w)
    /\ UNCHANGED cc

RejectAll ==
    /\ cc
    /\ \E w \in {rejectAll(World)} :
          Commit(w, "rejectAll", <<>>) /\ Decide(w)
    /\ UNCHANGED cc

\* the visitor leaves the checkboxes as in c, one of ticks, and has the
\* preferences saved
SaveCustomPreferencesOf(ticks) ==
    /\ cc
    /\ \E c \in ticks :
          \E w \in {saveCustomPreferences(Tick(World, c))} :
          Commit(w, "saveCustomPreferences", <<>>) /\ Decide(w)
    /\ UNCHANGED cc

SaveCustomPreferences == SaveCustomPreferencesOf(Ticks)

OpenSettingsModal ==
    /\ cc
    /\ \E w \in {openSettingsModal(World)} :
          Commit(w, "openSettingsModal", <<>>) /\ Keep(w)
    /\ UNCHANGED cc

CloseSettingsModal ==
    /\ cc
    /\ \E w \in {closeSettingsModal(World)} :
          Commit(w, "closeSettingsModal", <<>>) /\ Keep(w)
    /\ UNCHANGED cc

SaveTheme ==
    /\ cc
    /\ \E t \in Themes :
          \E w \in {saveTheme(World, t)} :
          Commit(w, "saveTheme", <<t>>) /\ Keep(w)
    /\ UNCHANGED cc

SetLanguage ==
    /\ cc
    /\ \E l \in Languages :
          \E w \in {setLanguage(World, l)} :
          Commit(w, "setLanguage", <<l>>) /\ Keep(w)
    /\ UNCHANGED cc

SetFontSize ==
    /\ cc
    /\ \E z \in FontSizes :
          \E w \in {setFontSize(World, z)} :
          Commit(w, "setFontSize", <<z>>) /\ Keep(w)
    /\ UNCHANGED cc

TrackEvent ==
    /\ cc
    /\ \E w \in {trackEvent(World)} :
          Commit(w, "trackEvent", <<>>) /\ Keep(w)
    /\ UNCHANGED cc

\* window.trackEvent(eventName, eventData)
WindowTrackEvent ==
    /\ \E w \in {IF cc THEN trackEvent(World) ELSE World} :
          Commit(w, "window.trackEvent", <<>>) /\ Keep(w)
    /\ UNCHANGED cc

\* window.saveUserPreference(key, value)
SaveUserPreference(inputs) ==
    /\ \E kv \in inputs :
          \E w \in {saveUserPreference(World, kv[1], kv[2])} :
          Commit(w, "window.saveUserPreference", kv) /\ Keep(w)
    /\ UNCHANGED cc

\* the controller, its consent cookies and the analytics hook, on pages that
\* hold every element
Next ==
    \/ Navigate({Elements})
    \/ DOMContentLoaded
    \/ AcceptAll
    \/ RejectAll
    \/ SaveCustomPreferences
    \/ TrackEvent
    \/ WindowTrackEvent
    \/ SaveUserPreference(ConsentKeys)

Spec == Init /\ [][Next]_vars

\* the functional category: theme, language, font size, page preferences
NextFunctional ==
    \/ Navigate({Elements})
    \/ DOMContentLoaded
    \/ AcceptAll
    \/ RejectAll
    \/ SaveTheme
    \/ SetLanguage
    \/ SetFontSize
    \/ SaveUserPreference(OwnKeys)

SpecFunctional == Init /\ [][NextFunctional]_vars

\* pages that lack elements: any of the banner, the modal and the checkboxes,
\* or any of the controls; the visitor stays on the page or reloads it
Structural == {Banner, Modal} \cup Checkboxes
Pages ==
    {p \cup Controls : p \in SUBSET Structural}
        \cup {Structural \cup c : c \in SUBSET Controls}

InitDom == https = TRUE /\ gtag = FALSE /\ FirstVisit(Pages)

NextDom ==
    \/ Navigate({dom.present})
    \/ DOMContentLoaded
    \/ AcceptAll
    \/ RejectAll
    \/ SaveCustomPreferences
    \/ OpenSettingsModal
    \/ CloseSettingsModal

SpecDom == InitDom /\ [][NextDom]_vars

\* the adapter alone: scripts of the site call the three cookie functions
InitAdapter == https \in BOOLEAN /\ gtag = FALSE /\ FirstVisit({Elements})

SetCookie ==
    /\ \E n \in Names, v \in Values, d \in Days :
          /\ jar' = setCookie(jar, n, v, d, https)
          /\ last' = Did("setCookie", <<n, v>>, d, {}, FALSE)
    /\ Len(jar') <= MaxCookies
    /\ UNCHANGED <<https, gtag, cc, consentGiven, preferences, dom, decision>>

EraseCookie ==
    /\ \E n \in ErasedNames :
          /\ jar' = eraseCookie(jar, n, https)
          /\ last' = Did("eraseCookie", <<n>>, 0,
                         IF getCookie(jar, n).found THEN {"found"} ELSE {}, FALSE)
    /\ UNCHANGED <<https, gtag, cc, consentGiven, preferences, dom, decision>>

NextAdapter == SetCookie \/ EraseCookie

SpecAdapter == InitAdapter /\ [][NextAdapter]_vars

\* the 'change' handler bound to the theme selector
SelectTheme ==
    /\ cc
    /\ ThemeSelector \in dom.listeners
    /\ \E t \in ThemeOptions :
          \E w \in {saveTheme(World, t)} :
          Commit(w, "saveTheme", <<t>>) /\ Keep(w)
    /\ UNCHANGED cc

\* every operation of the controller, on pages that hold every element
InitController == https = TRUE /\ gtag = FALSE /\ FirstVisit({Elements})

NextController ==
    \/ Navigate({Elements})
    \/ DOMContentLoaded
    \/ AcceptAll
    \/ RejectAll
    \/ SaveCustomPreferencesOf(FunctionalUnticked)
    \/ SelectTheme
    \/ SetLanguage
    \/ SetFontSize
    \/ SaveUserPreference(OwnKeys)

SpecController == InitController /\ [][NextController]_vars

(***************************************************************************)
(* Properties.                                                             *)
(***************************************************************************)
ConsentOps == {"acceptAll", "rejectAll", "saveCustomPreferences"}

EnableRoutine ==
    [k \in Optional |->
        CASE k = FUNCTIONAL -> "enableFunctionalCookies"
          [] k = ANALYTICS -> "enableAnalytics"
          [] OTHER -> "enableMarketing"]

\* the optional categories whose enable routine the last operation invoked
Enabled == {k \in Optional : EnableRoutine[k] \in last.calls}

On(p) == {k \in Optional : p[k]}

Marker == getCookie(jar, COOKIE_CONSENT)
StoredPrefs == getCookie(jar, COOKIE_PREFERENCES)

\* C1: in every state in which the controller exists, preferences.necessary
\* is true.
C1_NecessaryAlwaysTrue == cc => preferences[NECESSARY]

GatedOps == {"saveTheme", "setLanguage", "setFontSize", "window.saveUserPreference"}

C3_FunctionalGating ==
    [][(last'.op \in GatedOps /\ (~cc \/ ~preferences[FUNCTIONAL]))
          => (jar' = jar /\ dom' = dom)]_vars

C3_Witness ==
    /\ last.op = "saveTheme"
    /\ cc /\ consentGiven /\ ~preferences[FUNCTIONAL]
    /\ getCookie(jar, SITE_THEME) = Null
    /\ Truthy(getCookie(jar, PREFERRED_LANGUAGE))

\* C4: an event reaches the analytics hook only in trackEvent (or the window
\* wrapper, with a controller), with the analytics flag true and the hook
\* present.
C4_AnalyticsGating ==
    "gtag:event" \in last.calls =>
        /\ last.op \in {"trackEvent", "window.trackEvent"}
        /\ cc /\ gtag /\ preferences[ANALYTICS]

C4_Witness ==
    /\ last.op = "window.trackEvent"
    /\ cc /\ gtag /\ consentGiven
    /\ preferences[FUNCTIONAL] /\ ~preferences[ANALYTICS]
    /\ "gtag:event" \notin last.calls

C7_Original ==
    (last.op = "setCookie" /\ last.arg[1] # <<>> /\ last.days >= 0)
        => getCookie(jar, last.arg[1]) = Str(last.arg[2])

\* C7 amended: it is, when the name is not empty, neither name nor value
\* begins or ends with a space, and days is not negative.
Plain(s) == Trim(s) = s

C7_RoundTrip ==
    (/\ last.op = "setCookie"
     /\ last.arg[1] # <<>> /\ Plain(last.arg[1]) /\ Plain(last.arg[2])
     /\ last.days >= 0)
        => getCookie(jar, last.arg[1]) = Str(last.arg[2])

C7_Witness ==
    /\ last.op = "setCookie"
    /\ last.arg = <<<<"a">>, <<"a", " ", "a">>>>
    /\ last.days = 365
    /\ Len(jar) = 2 /\ jar[2].name = <<"a">> /\ jar[1].name = <<"a", "a">>

\* C8: after eraseCookie(name), getCookie(name) is null.
C8_EraseThenGet ==
    last.op = "eraseCookie" => getCookie(jar, last.arg[1]) = Null

C8_Witness ==
    /\ last.op = "eraseCookie"
    /\ "found" \in last.calls
    /\ jar # <<>>

\* C9: a page load with the marker present and a cookie_preferences value
\* that does not parse does not throw, applies the settings, binds the
\* controls of the page, and leaves the default preference set.
C9_CorruptedPreferences ==
    (/\ last.op = "load"
     /\ Truthy(Marker)
     /\ StoredPrefs.found /\ ~JSONparse(StoredPrefs.val).ok)
        => /\ ~last.threw
           /\ consentGiven
           /\ {"applyCookieSettings", "setupEventListeners"} \subseteq last.calls
           /\ dom.listeners = Controls \cap dom.present
           /\ preferences = DefaultPreferences
           /\ Enabled = {}

C9_Witness ==
    /\ last.op = "load"
    /\ Marker = Str(GIVEN)
    /\ StoredPrefs = Str(PrefsCorrupt)
    /\ "console.warn" \in last.calls

\* C10: no operation of the controller throws, whatever elements the page
\* lacks.
C10_NoThrow == ~last.threw

\* C11: saveCustomPreferences leaves each optional category at the checked
\* state of its checkbox, false for a checkbox that is unchecked or absent
\* from the page, and the cookie_preferences value in the store parses to
\* those three values.
Ticked(k) == Checkbox[k] \in dom.present /\ dom.checked[k]

C11_CustomSave ==
    last.op = "saveCustomPreferences" =>
        /\ \A k \in Optional : preferences[k] = Ticked(k)
        /\ StoredPrefs.found
        /\ JSONparse(StoredPrefs.val).ok
        /\ \A k \in Optional :
              /\ k \in DOMAIN JSONparse(StoredPrefs.val).obj
              /\ JSONparse(StoredPrefs.val).obj[k] = Ticked(k)

\* functional ticked, the analytics checkbox absent, marketing unticked
C11_Witness ==
    /\ last.op = "saveCustomPreferences"
    /\ Checkbox[ANALYTICS] \notin dom.present
    /\ Checkbox[MARKETING] \in dom.present
    /\ dom.checked = [k \in Optional |-> k = FUNCTIONAL]
    /\ preferences = [k \in PrefKeys |-> k \in {NECESSARY, FUNCTIONAL}]
    /\ StoredPrefs = Str(JSONstringify(preferences))

\* C12: a page load against an empty cookie store calls showConsentBanner
\* (the banner, when the page has one, is displayed), leaves consentGiven
\* false and the default preference set, invokes no enable routine and
\* leaves the store empty.
C12_InitNoCookies ==
    [][(jar = <<>> /\ last'.op = "load") =>
          /\ "showConsentBanner" \in last'.calls
          /\ Banner \in dom'.present => dom'.banner = "block"
          /\ ~consentGiven'
          /\ preferences' = DefaultPreferences
          /\ Enabled' = {}
          /\ jar' = <<>>]_vars

\* the store only grows in SpecDom: empty after the load, it was empty before
C12_Witness ==
    /\ last.op = "load"
    /\ jar = <<>>
    /\ cc /\ ~consentGiven
    /\ dom.banner = "block"

\* C13: after a page load, consentGiven is true and showConsentBanner was not
\* called exactly when a cookie named cookie_consent is in the store,
\* whatever its value.
HasMarker == \E i \in 1..Len(jar) : jar[i].name = COOKIE_CONSENT

C13_PresenceAlone ==
    last.op = "load" =>
        (HasMarker <=> (consentGiven /\ "showConsentBanner" \notin last.calls))

\* C14: in every state in which consentGiven is true, the cookie_preferences
\* cookie is in the store and parses to exactly the preference set in memory.
C14_PersistedTracksMemory ==
    (cc /\ consentGiven) =>
        /\ StoredPrefs.found
        /\ JSONparse(StoredPrefs.val).ok
        /\ JSONparse(StoredPrefs.val).obj = preferences

\* C15: after a page load that found the marker and a cookie_preferences
\* value that parses, every category key the parsed object lacks has its
\* default value in memory, and the enable routine of a lacking optional
\* category was not invoked.
C15_MissingKeyOptedOut ==
    (/\ last.op = "load"
     /\ Truthy(Marker)
     /\ Truthy(StoredPrefs) /\ JSONparse(StoredPrefs.val).ok)
        => \A k \in PrefKeys \ DOMAIN JSONparse(StoredPrefs.val).obj :
              /\ preferences[k] = DefaultPreferences[k]
              /\ k \notin Enabled

C15_Witness ==
    /\ last.op = "load"
    /\ Marker = Str(GIVEN)
    /\ StoredPrefs = Str(PrefsPartial)
    /\ preferences = [k \in PrefKeys |-> k \in {NECESSARY, ANALYTICS}]
    /\ Enabled = {ANALYTICS}

\* C16: every page load, with the marker and without it, reaches
\* setupEventListeners without throwing, and after it a handler is bound for
\* exactly the controls the page holds.
C16_ListenersAlwaysBound ==
    last.op = "load" =>
        /\ "setupEventListeners" \in last.calls
        /\ ~last.threw
        /\ dom.listeners = Controls \cap dom.present

\* C17: within a page session consentGiven, once true, stays true under
\* every operation of the controller, and whenever it is true the store
\* holds a cookie_consent cookie with a non-empty value.
C17_ConsentGivenMonotonic ==
    /\ [](consentGiven => Truthy(Marker))
    /\ [][(consentGiven /\ last'.op # "navigate") => consentGiven']_vars

\* consent was given, functional data stored, and the consent then narrowed
C17_Witness ==
    /\ last.op = "rejectAll"
    /\ consentGiven
    /\ Marker = Str(GIVEN)
    /\ StoredPrefs = Str(JSONstringify(DefaultPreferences))
    /\ Truthy(getCookie(jar, SITE_THEME))

\* C18: a rejectAll, or a saveCustomPreferences that leaves functional off,
\* changes no cookie other than the two consent cookies and leaves the theme,
\* language and font size applied to the document as they were; and no step
\* of the controller takes a cookie out of the store.
FunctionalData(j) ==
    SelectSeq(j, LAMBDA c : c.name \notin {COOKIE_CONSENT, COOKIE_PREFERENCES})

Applied(d) == <<d.bodyClass, d.selector, d.lang, d.fontSize>>

C18_WithdrawalKeepsData ==
    /\ [][(last'.op \in {"rejectAll", "saveCustomPreferences"}
             /\ ~preferences'[FUNCTIONAL])
            => /\ FunctionalData(jar') = FunctionalData(jar)
               /\ Applied(dom') = Applied(dom)]_vars
    /\ [][\A i \in 1..Len(jar) :
            \E k \in 1..Len(jar') : jar'[k].name = jar[i].name]_vars

C18_Witness ==
    /\ last.op = "rejectAll"
    /\ preferences = DefaultPreferences
    /\ getCookie(jar, SITE_THEME) = Str(<<"dark">>)
    /\ getCookie(jar, PREFERRED_LANGUAGE) = Str(<<"en">>)
    /\ getCookie(jar, FONT_SIZE) = Str(<<"18px">>)
    /\ getCookie(jar, <<"ui_density">>) = Str(<<"compact">>)
    /\ Applied(dom) = <<<<"dark", "-theme">>, <<"dark">>, <<"en">>, <<"18px">>>>

====
